---- MODULE Spec2Model ----
(***************************************************************************)
(* Model of update-schedule-page.py: a script that reads                   *)
(* src/app/admin/schedule/page.tsx into `content`, applies seven literal   *)
(* content.replace(old, new) substitutions in a fixed order, writes the    *)
(* buffer back with open(path, "w") and prints a status banner.            *)
(*                                                                         *)
(* Texts are sequences of tokens.  In the script's specification (Spec)    *)
(* a token is one of the chunks the seven anchor/replacement literals are  *)
(* made of: every new_* literal is its old_* literal with text inserted,   *)
(* so an old block is the sequence of chunks that surround the insertion   *)
(* points.  In the specification of the substitution engine alone          *)
(* (StepSpec) a token is a character of a two-letter alphabet, and         *)
(* buffers, anchors and replacements range over all short strings.         *)
(***************************************************************************)
EXTENDS Integers, Sequences, FiniteSets, TLC

VARIABLES
    disk,      \* text of the target file on disk
    content,   \* the script's variable `content` (the in-memory buffer)
    pc,        \* position of the script
    err,       \* exception that ended the script: "none" while it runs
    stdout,    \* TRUE once the status banner has been printed
    opened,    \* TRUE once open(path, "w") has returned in this run
    orig,      \* text of the file when the run started
    log,       \* <<operation name, buffer after it>>, one per operation run
    ext,       \* number of changes other processes made to the file
    run,       \* number of the current run of the script
    steps      \* the pipeline under test (StepSpec only; <<>> in Spec)

vars == <<disk, content, pc, err, stdout, opened, orig, log, ext, run, steps>>

----------------------------------------------------------------------------
(* Bounds *)

\* copies of an anchor block in one section of the file
MaxCopies == 1
\* changes by other processes during one execution
MaxExt == 1
\* runs of the script in RerunSpec
MaxRuns == 2
\* length of a buffer in StepSpec
MaxBuf == 3
\* length of an anchor in StepSpec
MaxAnchor == 2
\* length of a replacement in StepSpec
MaxRepl == 1

----------------------------------------------------------------------------
(* str.replace(old, new), old non-empty: scan left to right; at each       *)
(* position where old starts, emit new and continue AFTER the match (so    *)
(* matches do not overlap and inserted text is never rescanned); otherwise *)
(* copy one token.                                                         *)

RECURSIVE ReplaceFrom(_, _, _, _)
ReplaceFrom(s, i, old, new) ==
    IF i + Len(old) - 1 > Len(s)
    THEN SubSeq(s, i, Len(s))
    ELSE IF SubSeq(s, i, i + Len(old) - 1) = old
         THEN new \o ReplaceFrom(s, i + Len(old), old, new)
         ELSE <<s[i]>> \o ReplaceFrom(s, i + 1, old, new)

RECURSIVE ReplaceFirstFrom(_, _, _, _)
ReplaceFirstFrom(s, i, old, new) ==
    IF i + Len(old) - 1 > Len(s)
    THEN SubSeq(s, i, Len(s))
    ELSE IF SubSeq(s, i, i + Len(old) - 1) = old
         THEN new \o SubSeq(s, i + Len(old), Len(s))
         ELSE <<s[i]>> \o ReplaceFirstFrom(s, i + 1, old, new)

\* str.replace(old, new, 1): only the leftmost occurrence is replaced.
ReplaceFirst(s, old, new) == ReplaceFirstFrom(s, 1, old, new)

\* A replace that reports a missing anchor by yielding nothing.
ReplaceOrNothing(s, old, new) ==
    IF ReplaceFrom(s, 1, old, new) = s /\ old # new THEN <<>>
    ELSE ReplaceFrom(s, 1, old, new)

Replace(s, old, new) == ReplaceFrom(s, 1, old, new)

----------------------------------------------------------------------------
(* The seven anchor / replacement literals of the script.                  *)

old_imports == <<"imports..RotateCcw", "} from lucide-react">>
new_imports == <<"imports..RotateCcw", ", Copy, HelpCircle", "} from lucide-react">>

old_component_imports == <<"import useAdminSchedule", "import TimesheetDetail">>
new_component_imports ==
    <<"import useAdminSchedule", "import useKeyboardShortcuts",
      "import TimesheetDetail", "import DuplicateShiftModal, KeyboardShortcutsHelp">>

old_timesheet_state == <<"TimesheetDetail state">>
new_timesheet_state == <<"TimesheetDetail state", "Duplicate + ShortcutsHelp state">>

old_navigate_section == <<"closeTimesheetPreview", "const navigateMonth">>
new_navigate_section ==
    <<"closeTimesheetPreview", "duplicate handlers + useKeyboardShortcuts",
      "const navigateMonth">>

old_header_buttons == <<"header div", "View Toggle">>
new_header_buttons == <<"header div", "HelpCircle button", "View Toggle">>

old_action_buttons == <<"actions div + Eye button", "Edit2 + Trash2 buttons">>
new_action_buttons ==
    <<"actions div + Eye button", "Copy button", "Edit2 + Trash2 buttons">>

old_timesheet_modal == <<"Timesheet Detail Modal", "closing divs">>
new_timesheet_modal ==
    <<"Timesheet Detail Modal", "Duplicate + ShortcutsHelp modals", "closing divs">>

\* The substitutions in the order the script performs them.
ProgramSteps ==
    << [name |-> "imports",           old |-> old_imports,           new |-> new_imports],
       [name |-> "component imports", old |-> old_component_imports, new |-> new_component_imports],
       [name |-> "state",             old |-> old_timesheet_state,   new |-> new_timesheet_state],
       [name |-> "handlers",          old |-> old_navigate_section,  new |-> new_navigate_section],
       [name |-> "header button",     old |-> old_header_buttons,    new |-> new_header_buttons],
       [name |-> "action buttons",    old |-> old_action_buttons,    new |-> new_action_buttons],
       [name |-> "modals",            old |-> old_timesheet_modal,   new |-> new_timesheet_modal] >>

----------------------------------------------------------------------------
(* Texts the target file can hold when the script starts.  Before the     *)
(* migration each of the seven places the script patches holds the         *)
(* unpatched block (up to MaxCopies times) or no such block; after it each *)
(* place holds the patched block or no such block.                         *)

RECURSIVE Repeat(_, _)
Repeat(block, n) == IF n = 0 THEN <<>> ELSE block \o Repeat(block, n - 1)

UnpatchedSection(k) == {Repeat(ProgramSteps[k].old, c) : c \in 0..MaxCopies}

PatchedSection(k) == {<<>>, ProgramSteps[k].new}

InitialFiles ==
    { s1 \o s2 \o s3 \o s4 \o s5 \o s6 \o s7 :
        s1 \in UnpatchedSection(1), s2 \in UnpatchedSection(2),
        s3 \in UnpatchedSection(3), s4 \in UnpatchedSection(4),
        s5 \in UnpatchedSection(5), s6 \in UnpatchedSection(6),
        s7 \in UnpatchedSection(7) }
    \cup
    { s1 \o s2 \o s3 \o s4 \o s5 \o s6 \o s7 :
        s1 \in PatchedSection(1), s2 \in PatchedSection(2),
        s3 \in PatchedSection(3), s4 \in PatchedSection(4),
        s5 \in PatchedSection(5), s6 \in PatchedSection(6),
        s7 \in PatchedSection(7) }

\* What another process leaves in the file: its current text plus an edit.
ExternalEdit(text) == Append(text, "edit by another process")

----------------------------------------------------------------------------
(* The script *)

Init ==
    /\ disk \in InitialFiles
    /\ orig = disk
    /\ content = <<>>
    /\ pc = "read"
    /\ err = "none"
    /\ stdout = FALSE
    /\ opened = FALSE
    /\ log = <<>>
    /\ ext = 0
    /\ run = 1
    /\ steps = <<>>

\* with open(path, "r") as f: content = f.read()
ReadFile ==
    /\ pc = "read"
    /\ content' = disk
    /\ log' = Append(log, <<"read", disk>>)
    /\ pc' = "step1"
    /\ UNCHANGED <<disk, err, stdout, opened, orig, ext, run, steps>>

\* A read failure that is swallowed: the script carries on with an empty buffer.
ReadFailureSwallowed ==
    /\ pc = "read"
    /\ err' = "ReadFailure"
    /\ content' = <<>>
    /\ log' = Append(log, <<"read", <<>>>>)
    /\ pc' = "step1"
    /\ UNCHANGED <<disk, stdout, opened, orig, ext, run, steps>>

\* open / read raises (file missing or unreadable): the script ends there.
ReadFailure ==
    /\ pc = "read"
    /\ err' = "ReadFailure"
    /\ pc' = "failed"
    /\ UNCHANGED <<disk, content, stdout, opened, orig, log, ext, run, steps>>

\* content = content.replace(old, new) for the k-th substitution
ApplyProgramStep(k, here, next) ==
    /\ pc = here
    /\ content' = Replace(content, ProgramSteps[k].old, ProgramSteps[k].new)
    /\ log' = Append(log, <<ProgramSteps[k].name, content'>>)
    /\ pc' = next
    /\ UNCHANGED <<disk, err, stdout, opened, orig, ext, run, steps>>

\* A state step that also saves the buffer to the file as soon as it changed.
Step3StateWriteThrough ==
    /\ pc = "step3"
    /\ content' = Replace(content, old_timesheet_state, new_timesheet_state)
    /\ log' = Append(log, <<"state", content'>>)
    /\ disk' = content'
    /\ pc' = "step4"
    /\ UNCHANGED <<err, stdout, opened, orig, ext, run, steps>>

\* A header-button step that patches the text read from the file, dropping
\* what the earlier steps produced.
Step5HeaderButtonOnOriginal ==
    /\ pc = "step5"
    /\ content' = Replace(log[1][2], old_header_buttons, new_header_buttons)
    /\ log' = Append(log, <<"header button", content'>>)
    /\ pc' = "step6"
    /\ UNCHANGED <<disk, err, stdout, opened, orig, ext, run, steps>>

Step1Imports ==
    ApplyProgramStep(1, "step1", "step2")

Step2ComponentImports ==
    ApplyProgramStep(2, "step2", "step3")

Step3State ==
    ApplyProgramStep(3, "step3", "step4")

Step4Handlers ==
    ApplyProgramStep(4, "step4", "step5")

Step5HeaderButton ==
    ApplyProgramStep(5, "step5", "step6")

Step6ActionButtons ==
    ApplyProgramStep(6, "step6", "step7")

Step7Modals ==
    ApplyProgramStep(7, "step7", "open")

\* An open that first checks that the file still holds what was read.
OpenForWriteIfUnchanged ==
    /\ pc = "open"
    /\ disk = log[1][2]
    /\ disk' = <<>>
    /\ opened' = TRUE
    /\ pc' = "write"
    /\ UNCHANGED <<content, err, stdout, orig, log, ext, run, steps>>

\* open(path, "w"): truncates the file
OpenForWrite ==
    /\ pc = "open"
    /\ disk' = <<>>
    /\ opened' = TRUE
    /\ pc' = "write"
    /\ UNCHANGED <<content, err, stdout, orig, log, ext, run, steps>>

\* open(path, "w") raises (no permission): nothing was truncated
OpenForWriteFailure ==
    /\ pc = "open"
    /\ err' = "WriteFailure"
    /\ pc' = "failed"
    /\ UNCHANGED <<disk, content, stdout, opened, orig, log, ext, run, steps>>

\* f.write(content) and the close at the end of the with block
WriteContent ==
    /\ pc = "write"
    /\ disk' = content
    /\ pc' = "print"
    /\ UNCHANGED <<content, err, stdout, opened, orig, log, ext, run, steps>>

\* A write failure that is swallowed: the script goes on to the banner.
WriteContentFailureSwallowed ==
    /\ pc = "write"
    /\ \E n \in 0..Len(content) : disk' = SubSeq(content, 1, n)
    /\ err' = "WriteFailure"
    /\ pc' = "print"
    /\ UNCHANGED <<content, stdout, opened, orig, log, ext, run, steps>>

\* f.write / flush / close raises (medium error): the file, truncated by
\* open, holds whatever part of the buffer reached it
WriteContentFailure ==
    /\ pc = "write"
    /\ \E n \in 0..Len(content) : disk' = SubSeq(content, 1, n)
    /\ err' = "WriteFailure"
    /\ pc' = "failed"
    /\ UNCHANGED <<content, stdout, opened, orig, log, ext, run, steps>>

\* print("... updated successfully!") and the feature list
PrintBanner ==
    /\ pc = "print"
    /\ stdout' = TRUE
    /\ pc' = "done"
    /\ UNCHANGED <<disk, content, err, opened, orig, log, ext, run, steps>>

BeforeWrite == {"step1", "step2", "step3", "step4", "step5", "step6", "step7", "open"}

\* The process is interrupted after the read and before the write begins.
Interrupt ==
    /\ pc \in BeforeWrite
    /\ err' = "Interrupted"
    /\ pc' = "failed"
    /\ UNCHANGED <<disk, content, stdout, opened, orig, log, ext, run, steps>>

\* Another process changes the file between the script's read and write:
\* the script takes no lock and never looks at the file again.
ExternalWrite ==
    /\ pc \in BeforeWrite
    /\ ext < MaxExt
    /\ disk' = ExternalEdit(disk)
    /\ ext' = ext + 1
    /\ UNCHANGED <<content, pc, err, stdout, opened, orig, log, run, steps>>

Next ==
    \/ ReadFile
    \/ ReadFailure
    \/ Step1Imports
    \/ Step2ComponentImports
    \/ Step3State
    \/ Step4Handlers
    \/ Step5HeaderButton
    \/ Step6ActionButtons
    \/ Step7Modals
    \/ OpenForWrite
    \/ OpenForWriteFailure
    \/ WriteContent
    \/ WriteContentFailure
    \/ PrintBanner
    \/ Interrupt
    \/ ExternalWrite

Spec == Init /\ [][Next]_vars

----------------------------------------------------------------------------
(* Running the script again on the file it has just written. *)

Rerun ==
    /\ pc = "done"
    /\ run < MaxRuns
    /\ run' = run + 1
    /\ orig' = disk
    /\ content' = <<>>
    /\ log' = <<>>
    /\ stdout' = FALSE
    /\ opened' = FALSE
    /\ pc' = "read"
    /\ UNCHANGED <<disk, err, ext, steps>>

RerunSpec == Init /\ [][Next \/ Rerun]_vars

----------------------------------------------------------------------------
(* The substitution engine on its own: any buffer, and a pipeline of one   *)
(* or two substitutions with any non-empty anchor and any replacement      *)
(* (every anchor literal of the script is non-empty).                      *)

Alphabet == {"a", "b"}

Strings(lo, hi) == UNION {[1..m -> Alphabet] : m \in lo..hi}

GenericSteps(name) ==
    { [name |-> name, old |-> o, new |-> n] :
        o \in Strings(1, MaxAnchor), n \in Strings(0, MaxRepl) }

Pipelines ==
    { <<A>> : A \in GenericSteps("A") }
        \cup { <<A, B>> : A \in GenericSteps("A"), B \in GenericSteps("B") }

StepInit ==
    /\ steps \in Pipelines
    /\ content \in Strings(0, MaxBuf)
    /\ log = << <<"input", content>> >>
    /\ pc = "pipeline"
    /\ disk = <<>>
    /\ orig = <<>>
    /\ err = "none"
    /\ stdout = FALSE
    /\ opened = FALSE
    /\ ext = 0
    /\ run = 1

\* A step that works on the pipeline's input instead of the current buffer.
ApplyStepStale ==
    /\ pc = "pipeline"
    /\ Len(log) <= Len(steps)
    /\ content' = Replace(log[1][2], steps[Len(log)].old, steps[Len(log)].new)
    /\ log' = Append(log, <<steps[Len(log)].name, content'>>)
    /\ UNCHANGED <<disk, pc, err, stdout, opened, orig, ext, run, steps>>

\* content = content.replace(old, new), for the next step of the pipeline
ApplyStep ==
    /\ pc = "pipeline"
    /\ Len(log) <= Len(steps)
    /\ content' = Replace(content, steps[Len(log)].old, steps[Len(log)].new)
    /\ log' = Append(log, <<steps[Len(log)].name, content'>>)
    /\ UNCHANGED <<disk, pc, err, stdout, opened, orig, ext, run, steps>>

StepSpec == StepInit /\ [][ApplyStep]_vars

----------------------------------------------------------------------------
(* Vocabulary of the properties *)

\* The buffer after the k-th logged operation (1: the text read / the input).
Buf(k) == log[k][2]

\* The names of the operations run so far, in order.
Names == [k \in 1..Len(log) |-> log[k][1]]

WritePhase == {"open", "write", "print", "done"}

\* `old in s`: exact literal containment.
Contains(s, old) ==
    \E i \in 1..(Len(s) - Len(old) + 1) : SubSeq(s, i, i + Len(old) - 1) = old

\* str.count(old): non-overlapping occurrences, scanning left to right.
RECURSIVE CountFrom(_, _, _)
CountFrom(s, i, old) ==
    IF i + Len(old) - 1 > Len(s) THEN 0
    ELSE IF SubSeq(s, i, i + Len(old) - 1) = old
         THEN 1 + CountFrom(s, i + Len(old), old)
         ELSE CountFrom(s, i + 1, old)

Count(s, old) == CountFrom(s, 1, old)

\* Position of the leftmost occurrence of old in s.
FirstIndex(s, old) ==
    CHOOSE i \in 1..(Len(s) - Len(old) + 1) :
        /\ SubSeq(s, i, i + Len(old) - 1) = old
        /\ \A j \in 1..(i - 1) : SubSeq(s, j, j + Len(old) - 1) # old

\* The pieces of s between its occurrences of old, taken leftmost first.
RECURSIVE SplitOn(_, _)
SplitOn(s, old) ==
    IF ~Contains(s, old) THEN <<s>>
    ELSE <<SubSeq(s, 1, FirstIndex(s, old) - 1)>>
             \o SplitOn(SubSeq(s, FirstIndex(s, old) + Len(old), Len(s)), old)

RECURSIVE JoinWith(_, _)
JoinWith(pieces, sep) ==
    IF Len(pieces) = 1 THEN pieces[1]
    ELSE pieces[1] \o sep \o JoinWith(Tail(pieces), sep)

\* s with each of its occurrences of old (leftmost first, not overlapping)
\* replaced by new, and the text between them verbatim.
EveryOccurrenceReplaced(s, old, new) == JoinWith(SplitOn(s, old), new)

\* The pipeline's result computed from the Steps whose anchor is present at
\* their turn, skipping the others.
RECURSIVE FoldMatched(_, _)
FoldMatched(buf, k) ==
    IF k > Len(ProgramSteps) THEN buf
    ELSE FoldMatched(
            IF Contains(buf, ProgramSteps[k].old)
            THEN EveryOccurrenceReplaced(buf, ProgramSteps[k].old, ProgramSteps[k].new)
            ELSE buf,
            k + 1)

AllStepsLogged == Len(log) = Len(ProgramSteps) + 1

----------------------------------------------------------------------------
C2_SecondRunChangesNothing ==
    (run >= 2 /\ pc = "done" /\ ext = 0) => disk = orig

\* C3: when the write fails the file holds exactly its pre-transaction
\* content (never empty, truncated or partially written).
C3_FailedWriteKeepsOriginal ==
    (err = "WriteFailure" /\ ext = 0) => disk = orig

\* C4: a ReadFailure ends the run before any Step: no Step applied, the file
\* never opened for writing, its content unchanged, no success message.
C4_ReadFailureAbortsBeforeAnyStep ==
    err = "ReadFailure"
        => /\ pc = "failed"
           /\ log = <<>>
           /\ ~opened
           /\ disk = orig
           /\ ~stdout

\* The read has failed on a file the Steps would have changed.
C4_Witness ==
    /\ err = "ReadFailure"
    /\ pc = "failed"
    /\ FoldMatched(disk, 1) # disk

\* A's anchor is in the buffer, B's is not, and A's replacement holds B's.
OrderCase(buf, A, B) ==
    /\ Contains(buf, A.old)
    /\ ~Contains(buf, B.old)
    /\ Contains(A.new, B.old)

\* C5: order sensitivity - when B's anchor is only introduced by A's
\* replacement, [A, B] applies both replacements, and [B, A] leaves B a
\* no-op and yields what A alone yields.
C5_OrderSensitivity ==
    (Len(steps) = 2 /\ Len(log) = 3)
        => /\ OrderCase(Buf(1), steps[1], steps[2])
                => /\ Contains(Buf(2), steps[1].new)
                   /\ Contains(Buf(2), steps[2].old)
                   /\ Contains(Buf(3), steps[2].new)
                   /\ Buf(3) = EveryOccurrenceReplaced(Buf(2), steps[2].old, steps[2].new)
           /\ OrderCase(Buf(1), steps[2], steps[1])
                => /\ Buf(2) = Buf(1)
                   /\ Contains(Buf(3), steps[2].new)
                   /\ Buf(3) = EveryOccurrenceReplaced(Buf(1), steps[2].old, steps[2].new)

\* [A, B] has run in the order case, and both Steps changed the buffer.
C5_Witness ==
    /\ Len(steps) = 2
    /\ Len(log) = 3
    /\ OrderCase(Buf(1), steps[1], steps[2])
    /\ Buf(2) # Buf(1)
    /\ Buf(3) # Buf(2)
    /\ ~Contains(Buf(3), steps[2].old)

\* C6: non-interference - a Step whose anchor is absent leaves the buffer
\* identical and stops nothing: all Steps run, and the final buffer is the
\* input transformed by the Steps whose anchor matched, in declared order.
C6_NonInterference ==
    /\ \A k \in 1..(Len(log) - 1) :
          ~Contains(Buf(k), ProgramSteps[k].old) => Buf(k + 1) = Buf(k)
    /\ pc \in WritePhase
          => /\ AllStepsLogged
             /\ content = FoldMatched(Buf(1), 1)

\* The run is complete, and a Step that did not match was followed by a
\* Step that did.
C6_Witness ==
    /\ pc = "done"
    /\ \E j \in 1..(Len(log) - 1) : \E k \in (j + 1)..(Len(log) - 1) :
          /\ ~Contains(Buf(j), ProgramSteps[j].old)
          /\ Contains(Buf(k), ProgramSteps[k].old)
          /\ Buf(k + 1) # Buf(k)

\* C7: the success message is emitted exactly in the runs whose write
\* completed, whatever the number of Steps that matched, and never in a run
\* whose read or write failed.
C7_SuccessIffWriteCompleted ==
    /\ stdout => (pc = "done" /\ err = "none" /\ opened /\ disk = content)
    /\ pc = "done" => stdout
    /\ pc = "print" => (err = "none" /\ disk = content /\ ENABLED PrintBanner)
    /\ err # "none" => ~stdout

\* Success was reported in a run in which no Step matched: the file was
\* written back unchanged.
C7_Witness ==
    /\ stdout
    /\ orig # <<>>
    /\ disk = orig
    /\ AllStepsLogged
    /\ \A k \in 1..Len(ProgramSteps) : ~Contains(Buf(k), ProgramSteps[k].old)

\* C8: until the write begins the file holds its pre-transaction content,
\* also when the run is interrupted; no Step touches the file, and the file
\* is opened for writing only after the last Step.
C8_InterruptLeavesFileUntouched ==
    /\ ((pc \in BeforeWrite \/ err = "Interrupted") /\ ext = 0)
          => (disk = orig /\ ~opened)
    /\ opened => AllStepsLogged

\* The run was interrupted between two Steps, after the buffer had changed.
C8_Witness ==
    /\ err = "Interrupted"
    /\ ext = 0
    /\ Len(log) > 3
    /\ ~AllStepsLogged
    /\ content # orig
    /\ disk = orig

\* C9: last-writer-wins - a change another process makes to the file between
\* the read and the write is not detected and stops nothing; once the write
\* completes the file holds the pipeline's result for the text that was
\* read, and the other process's change is gone.
C9_LastWriterWins ==
    /\ (ext > 0 /\ pc = "open") => ENABLED OpenForWrite
    /\ (ext > 0 /\ pc = "write") => ENABLED WriteContent
    /\ (ext > 0 /\ pc \in {"print", "done"})
          => /\ err = "none"
             /\ Buf(1) = orig
             /\ disk = FoldMatched(orig, 1)
             /\ ~Contains(disk, <<"edit by another process">>)

\* The write completed after another process had changed the file.
C9_Witness ==
    /\ ext > 0
    /\ pc = "done"
    /\ disk # orig
    /\ disk = content

\* C10: in a run that reaches the write every Step has been applied exactly
\* once, in declared order, each to the buffer the previous one produced
\* (the first to the text read), and the text written is the last output.
C10_EachStepOnceInOrder ==
    pc \in WritePhase
        => /\ Names = <<"read", "imports", "component imports", "state", "handlers",
                        "header button", "action buttons", "modals">>
           /\ Buf(1) = orig
           /\ \A k \in 1..Len(ProgramSteps) :
                 Buf(k + 1) = EveryOccurrenceReplaced(Buf(k), ProgramSteps[k].old,
                                                      ProgramSteps[k].new)
           /\ content = Buf(Len(log))
           /\ pc \in {"print", "done"} => disk = Buf(Len(log))

\* The write completed in a run in which every one of the Steps matched.
C10_Witness ==
    /\ pc = "done"
    /\ AllStepsLogged
    /\ \A k \in 1..Len(ProgramSteps) : Buf(k + 1) # Buf(k)
    /\ disk = content

====
